---- MODULE Spec2Model ----
(***************************************************************************)
(* NexusSpace frontend: the analysis request lifecycle of App.jsx, the     *)
(* analyzeProject call of the API client and the staged progress animation *)
(* of AnalysisProgress.jsx.                                                *)
(*                                                                         *)
(* Granularity.  JavaScript runs each callback to completion, and React    *)
(* batches the state updates of one callback into one render.  One action  *)
(* of this model is therefore one callback (an event handler up to its     *)
(* first await, the continuation of an await, a timer callback) together   *)
(* with the render it causes, mount and unmount effects included.  The     *)
(* variables isAnalyzing, analysisResult, analysisError, projectPath and   *)
(* analysisPrompt hold the state the App last rendered with.               *)
(*                                                                         *)
(* Specifications.  Spec: the App driven through its rendered controls.    *)
(* SpecHandler: the handler also invoked directly while a request is       *)
(* pending.  SpecApi: analyzeProject called with any arguments.  SpecSim:  *)
(* the progress animation started and stopped at any moment, with its      *)
(* history kept.  SpecLive: the App with a network that always answers     *)
(* (weak fairness of its answers).  SpecSettings: the settings panel next  *)
(* to the App.                                                             *)
(***************************************************************************)
EXTENDS Integers, Sequences, FiniteSets, TLC

VARIABLES
    isAnalyzing,     \* App.jsx:11
    analysisResult,  \* App.jsx:12
    analysisError,   \* App.jsx:13
    projectPath,     \* App.jsx:14
    analysisPrompt,  \* App.jsx:15
    inflight,        \* the analyzeProject invocations whose promise is pending
    sim,             \* the AnalysisProgress component: React state, effect closure, timers
    hist,            \* history of the session (observation only, never read by the program)
    activeTab,       \* AnalysisResults: the tab selected (AnalysisResults useState)
    simHist,         \* history of the simulator (observation only, kept by SpecSim)
    settingsPanel    \* the SettingsPanel component: React state and its pending call

vars == <<isAnalyzing, analysisResult, analysisError, projectPath, analysisPrompt,
          inflight, sim, hist, activeTab, simHist, settingsPanel>>

appVars == <<isAnalyzing, analysisResult, analysisError>>

(***************************************************************************)
(* JavaScript values.  Every value carries its type tag.                   *)
(***************************************************************************)
JNull == [t |-> "null"]

JUndefined == [t |-> "undefined"]

JStr(s) == [t |-> "string", s |-> s]

JObj(f) == [t |-> "object", f |-> f]

\* What response.json() yields for a body that is no JSON text: it rejects.
NotJson == [t |-> "unparseable"]

\* ToBoolean, as used by `&&`, `||`, `!` and `if`.
Truthy(v) ==
    CASE v.t = "null" -> FALSE
      [] v.t = "undefined" -> FALSE
      [] v.t = "string" -> v.s # ""
      [] OTHER -> TRUE

\* a || b
OrElse(a, b) == IF Truthy(a) THEN a ELSE b

\* Whether reading a property of v throws a TypeError.
PropertyReadThrows(v) == v.t \in {"null", "undefined"}

\* v[key] for a v whose properties can be read; a missing key reads undefined.
Get(v, key) ==
    IF v.t = "object" /\ key \in DOMAIN v.f THEN v.f[key] ELSE JUndefined

\* ToString, as applied by `new Error(v)` to its message.
ToStr(v) ==
    CASE v.t = "string" -> v.s
      [] v.t = "null" -> "null"
      [] v.t = "undefined" -> "undefined"
      [] OTHER -> "[object Object]"

\* Whether string s occurs in string m.
StrContains(m, s) ==
    \E i \in 1..(Len(m) - Len(s) + 1) : SubSeq(m, i, i + Len(s) - 1) = s

(***************************************************************************)
(* The inputs the model draws from.                                        *)
(***************************************************************************)
SAMPLE_PROMPT ==
    "Analyze the codebase focusing strictly on security vulnerabilities (improper handling of API keys, injection risks) and provide a prioritized list of refactoring suggestions."

\* What the user can type into the project-path input.
Paths == {".", "../other-project"}

\* What the user can type into the prompt textarea: nothing, or the text the
\* sample link also sets.
Prompts == {"", SAMPLE_PROMPT}

FileAnalysis ==
    JObj([files_read |-> JStr("10"), total_size_mb |-> JStr("1.23"),
          files_skipped |-> JStr("0")])

\* A complete AnalysisResult.
ResultFull ==
    JObj([stage1 |-> JObj([files |-> JStr("a")]),
          stage2 |-> JObj([ranking |-> JStr("b")]),
          stage3 |-> JObj([response |-> JStr("ok")]),
          metadata |-> JObj([source_path |-> JStr("."), file_analysis |-> FileAnalysis])])

\* An AnalysisResult without its optional parts.
ResultPartial ==
    JObj([stage1 |-> JObj([files |-> JStr("a")]),
          metadata |-> JObj([source_path |-> JStr(".")])])

\* An AnalysisResult with its last stage only: stage1 null, stage2 missing.
ResultSynthesisOnly ==
    JObj([stage1 |-> JNull,
          stage3 |-> JObj([response |-> JStr("# Report")]),
          metadata |-> JObj([source_path |-> JStr(".")])])

\* The bodies a 2xx response can carry.
OkBodies == {ResultFull, ResultPartial, ResultSynthesisOnly, JNull, NotJson}

\* The bodies a non-2xx response can carry: a detail that is a string, one
\* that is an object, no detail, null, and a body that is no JSON.
ErrBodies ==
    {JObj([detail |-> JStr("boom")]), JObj([detail |-> JStr("")]),
     JObj([detail |-> JObj([msg |-> JStr("field required")])]),
     JObj([other |-> JStr("x")]), JNull, NotJson}

\* The status lines of the responses: response.ok and response.statusText.
StatusLines ==
    {[ok |-> TRUE, statusText |-> "OK"],
     [ok |-> FALSE, statusText |-> "Internal Server Error"],
     [ok |-> FALSE, statusText |-> ""]}

\* The message of the TypeError fetch rejects with when the network fails.
NetworkErrorMessage == "Failed to fetch"

\* The message of the SyntaxError response.json() rejects with.
JsonSyntaxErrorMessage == "Unexpected token < in JSON"

(***************************************************************************)
(* ApiClient.analyzeProject                                                *)
(***************************************************************************)
\* Mutant of RequestBody: the path is the literal "." whatever the input holds.
RequestBodyFixedPath(pathArg, promptArg) ==
    IF Truthy(promptArg)
    THEN [project_path |-> JStr("."), analysis_prompt |-> promptArg]
    ELSE [project_path |-> JStr(".")]

\* Mutant of RequestBody: analysis_prompt is sent whatever the prompt is.
RequestBodySendsNull(pathArg, promptArg) ==
    LET path == IF pathArg = JUndefined THEN JStr(".") ELSE pathArg
        prompt == IF promptArg = JUndefined THEN JNull ELSE promptArg
    IN  [project_path |-> path, analysis_prompt |-> prompt]

\* The request body: project_path always, analysis_prompt only when truthy.
\* The parameter defaults apply to undefined arguments only.
RequestBody(pathArg, promptArg) ==
    LET path == IF pathArg = JUndefined THEN JStr(".") ELSE pathArg
        prompt == IF promptArg = JUndefined THEN JNull ELSE promptArg
    IN  IF Truthy(prompt)
        THEN [project_path |-> path, analysis_prompt |-> prompt]
        ELSE [project_path |-> path]

\* Mutant of ErrorMessage: the catch block is empty, the default message stays.
ErrorMessageEmptyCatch(statusText, body) ==
    IF body = NotJson \/ PropertyReadThrows(body)
    THEN "Failed to analyze project"
    ELSE LET detail == Get(body, "detail")
         IN  IF Truthy(detail) THEN ToStr(detail) ELSE "Failed to analyze project"

\* The message of the Error thrown for a non-ok response with this status
\* text and this body.
ErrorMessage(statusText, body) ==
    IF body = NotJson \/ PropertyReadThrows(body)
    THEN "Failed to analyze project: " \o statusText
    ELSE LET detail == Get(body, "detail")
         IN  IF Truthy(detail) THEN ToStr(detail) ELSE "Failed to analyze project"

\* How the promise of analyzeProject settles once the body of the response
\* has been read: [kind, value], value the payload or the error's message.
Settlement(status, body) ==
    IF ~status.ok
    THEN [kind |-> "rejected", value |-> JStr(ErrorMessage(status.statusText, body))]
    ELSE IF body = NotJson
         THEN [kind |-> "rejected", value |-> JStr(JsonSyntaxErrorMessage)]
         ELSE [kind |-> "resolved", value |-> body]

(***************************************************************************)
(* AnalysisProgress: three stages on timers.                               *)
(***************************************************************************)
\* stages[i].duration, in ms
StageDuration == 12000

\* the period of the progress interval, in ms
TickMs == 100

\* stages.length
NumStages == 3

\* Percent values are kept in millionths of a percent.
Pct(n) == n * 1000000

\* progressIncrement = 100 / (stageDuration / 100).  In IEEE doubles the sum
\* of 120 such increments is 99.99999999999987 and that of 121 is
\* 100.8333333333332; the fixed-point quotient below gives the same answer
\* to `progressValue >= 100` after every number of increments.
ProgressIncrement == Pct(100) \div (StageDuration \div TickMs)

\* The number of interval periods that end no later than the stage timeout.
TicksPerStage == StageDuration \div TickMs

Min(a, b) == IF a <= b THEN a ELSE b

\* The component before its effect has run, and after it is unmounted.
\* Timer ids are positive; 0 is a variable not yet assigned.
Unmounted ==
    [mounted |-> FALSE, currentStage |-> 0, progress |-> 0, progressValue |-> 0,
     stageTimer |-> 0, progressTimer |-> 0, intervals |-> {}, timeouts |-> {}]

\* The id setInterval / setTimeout returns: one that names no live timer and
\* that no variable of the closure still holds.
NewTimerId(s) ==
    LET used == {x.id : x \in s.intervals \cup s.timeouts}
                    \cup {s.stageTimer, s.progressTimer}
    IN  CHOOSE n \in 1..(Cardinality(used) + 1) :
            n \notin used /\ \A m \in 1..(n - 1) : m \in used

ClearInterval(s, id) == [s EXCEPT !.intervals = {x \in @ : x.id # id}]

ClearTimeout(s, id) == [s EXCEPT !.timeouts = {x \in @ : x.id # id}]

\* setCurrentStage / setProgress: a state update of an unmounted component
\* is dropped by React.
SetCurrentStage(s, v) == IF s.mounted THEN [s EXCEPT !.currentStage = v] ELSE s

SetProgress(s, v) == IF s.mounted THEN [s EXCEPT !.progress = v] ELSE s

\* Mutant of StartStage: the wrap-around test is `>` for `>=`.
StartStageWrapsLate(s, stageIndex) ==
    LET Begin(st, idx) ==
            LET s1 == SetProgress([SetCurrentStage(st, idx) EXCEPT !.progressValue = 0], 0)
                pid == NewTimerId(s1)
                s2 == [s1 EXCEPT !.progressTimer = pid,
                                 !.intervals = @ \cup {[id |-> pid, fired |-> 0]}]
                tid == NewTimerId(s2)
            IN  [s2 EXCEPT !.stageTimer = tid,
                           !.timeouts = @ \cup {[id |-> tid, stageIndex |-> idx]}]
    IN  IF stageIndex > NumStages
        THEN Begin(SetProgress(SetCurrentStage(s, 0), 0), 0)
        ELSE Begin(s, stageIndex)

RECURSIVE StartStage(_, _)
StartStage(s, stageIndex) ==
    IF stageIndex >= NumStages
    THEN StartStage(SetProgress(SetCurrentStage(s, 0), 0), 0)
    ELSE LET s1 == SetProgress(
                       [SetCurrentStage(s, stageIndex) EXCEPT !.progressValue = 0], 0)
             pid == NewTimerId(s1)
             s2 == [s1 EXCEPT !.progressTimer = pid,
                              !.intervals = @ \cup {[id |-> pid, fired |-> 0]}]
             tid == NewTimerId(s2)
         IN  [s2 EXCEPT !.stageTimer = tid,
                        !.timeouts = @ \cup {[id |-> tid, stageIndex |-> stageIndex]}]

\* The callback of the progress interval iv.
IntervalCallback(s, iv) ==
    LET sum == s.progressValue + ProgressIncrement
        s1 == [s EXCEPT !.intervals = (@ \ {iv}) \cup {[iv EXCEPT !.fired = @ + 1]}]
        s2 == IF sum >= Pct(100)
              THEN ClearInterval([s1 EXCEPT !.progressValue = Pct(100)], s1.progressTimer)
              ELSE [s1 EXCEPT !.progressValue = sum]
    IN  SetProgress(s2, Min(s2.progressValue, Pct(100)))

\* Mutant of TimeoutCallback: the interval of the stage that ended is not
\* cleared.
TimeoutCallbackKeepsInterval(s, to) ==
    StartStage([s EXCEPT !.timeouts = @ \ {to}], to.stageIndex + 1)

\* Mutant of TimeoutCallback: the stage that ended is started again.
TimeoutCallbackRepeatsStage(s, to) ==
    LET s1 == [s EXCEPT !.timeouts = @ \ {to}]
    IN  StartStage(ClearInterval(s1, s1.progressTimer), to.stageIndex)

\* The callback of the stage timeout to; a timeout fires once.
TimeoutCallback(s, to) ==
    LET s1 == [s EXCEPT !.timeouts = @ \ {to}]
    IN  StartStage(ClearInterval(s1, s1.progressTimer), to.stageIndex + 1)

\* The effect of AnalysisProgress, run when the component mounts.
MountEffect == StartStage([Unmounted EXCEPT !.mounted = TRUE], 0)

\* Mutant of Cleanup: the progress interval is not cleared.
CleanupKeepsProgressTimer(s) ==
    LET c == ClearTimeout(s, s.stageTimer)
    IN  IF c.intervals = {} /\ c.timeouts = {}
        THEN Unmounted
        ELSE [c EXCEPT !.mounted = FALSE, !.currentStage = 0, !.progress = 0]

\* Mutant of Cleanup: the stage timeout is not cleared.
CleanupKeepsStageTimer(s) ==
    LET c == ClearInterval(s, s.progressTimer)
    IN  IF c.intervals = {} /\ c.timeouts = {}
        THEN Unmounted
        ELSE [c EXCEPT !.mounted = FALSE, !.currentStage = 0, !.progress = 0]

\* The cleanup of the effect, run when the component unmounts.  The closure
\* is garbage once no timer refers to it.
Cleanup(s) ==
    LET c == ClearInterval(ClearTimeout(s, s.stageTimer), s.progressTimer)
    IN  IF c.intervals = {} /\ c.timeouts = {}
        THEN Unmounted
        ELSE [c EXCEPT !.mounted = FALSE, !.currentStage = 0, !.progress = 0]

(***************************************************************************)
(* App: what is rendered for a given state.                                *)
(***************************************************************************)
ShowProgress == isAnalyzing

ShowError == ~isAnalyzing /\ Truthy(analysisError)

\* Mutant of ShowResults: the result is not tested.
ShowResultsUntested == ~isAnalyzing /\ ~Truthy(analysisError)

ShowResults == ~isAnalyzing /\ ~Truthy(analysisError) /\ Truthy(analysisResult)

\* Mutant of ShowWelcome: the error is not tested.
ShowWelcomeUntestedError == ~isAnalyzing /\ ~Truthy(analysisResult)

ShowWelcome == ~isAnalyzing /\ ~Truthy(analysisError) /\ ~Truthy(analysisResult)

\* const fileMetadata = analysisResult?.metadata?.file_analysis || null;
\* `?.` yields undefined for a null or undefined object.
FileMetadataProp ==
    OrElse(Get(Get(analysisResult, "metadata"), "file_analysis"), JNull)

\* The sidebar renders its project-info block, with the status "Complete",
\* when fileMetadata is truthy.
ShowProjectInfo == Truthy(FileMetadataProp)

\* Mutant of AnalyzeButtonEnabled: the button is never disabled.
AnalyzeButtonNeverDisabled == TRUE

\* Mutant of AnalyzeButtonEnabled: the button is disabled while an error is
\* shown, too.
AnalyzeButtonDisabledOnError == ~isAnalyzing /\ ~Truthy(analysisError)

\* The sidebar's Analyze button is rendered always and disabled while loading.
AnalyzeButtonEnabled == ~isAnalyzing

\* The Try Again button is part of the error view.
TryAgainRendered == ShowError

\* The session state the App shows.
SessionState ==
    IF ShowProgress THEN "Running"
    ELSE IF ShowError THEN "Failed"
    ELSE IF ShowResults THEN "Succeeded"
    ELSE "Idle"

\* {isAnalyzing && <AnalysisProgress />}: the component mounts and unmounts
\* with the render that changes isAnalyzing.
Render(analyzing) ==
    sim' = IF analyzing /\ ~sim.mounted THEN MountEffect
           ELSE IF ~analyzing /\ sim.mounted THEN Cleanup(sim)
           ELSE sim

(***************************************************************************)
(* AnalysisResults: the three tabbed views of a result.                    *)
(***************************************************************************)
Tabs == {"stage1", "stage2", "stage3"}

\* Mutant of StageProp: every tab is given stage1.
StagePropAlwaysFirst(result, tab) == Get(result, "stage1")

\* The prop App passes for a tab: analysisResult.stage1 / stage2 / stage3.
StageProp(result, tab) == Get(result, tab)

\* What the panel of a tab shows, given the prop of its stage: the data
\* (JSON.stringify of stage1 and stage2, stage3.response as markdown), or the
\* "no data" placeholder.
StageView(stage, tab) ==
    IF Truthy(stage)
    THEN [kind |-> "data",
          content |-> IF tab = "stage3" THEN Get(stage, "response") ELSE stage]
    ELSE [kind |-> "placeholder",
          content |-> JStr(CASE tab = "stage1" -> "No Stage 1 data available yet."
                             [] tab = "stage2" -> "No Stage 2 data available yet."
                             [] OTHER -> "No Stage 3 data available yet.")]

\* The panel of a tab for the result App holds.
TabPanel(tab) == StageView(StageProp(analysisResult, tab), tab)

(***************************************************************************)
(* App: handleAnalyzeClick                                                 *)
(***************************************************************************)
NoRequest == [none |-> TRUE]

NoOutcome == [kind |-> "none", value |-> JNull]

\* Mutant of OnStart: isAnalyzing is not set.
OnStartNotAnalyzing ==
    [isAnalyzing |-> isAnalyzing, analysisError |-> JNull, analysisResult |-> JNull]

\* Mutant of OnStart: the result of the run before is not cleared.
OnStartKeepsResult ==
    [isAnalyzing |-> TRUE, analysisError |-> JNull, analysisResult |-> analysisResult]

\* Mutant of OnStart: the outcome of the run before is not cleared.
OnStartKeepsOutcome ==
    [isAnalyzing |-> TRUE, analysisError |-> analysisError, analysisResult |-> analysisResult]

\* The state updates before the call (lines 26-28).
OnStart == [isAnalyzing |-> TRUE, analysisError |-> JNull, analysisResult |-> JNull]

\* try + finally, after the call resolved with result.
OnResolved(result) ==
    [isAnalyzing |-> FALSE, analysisError |-> analysisError, analysisResult |-> result]

\* Mutant of OnRejected: isAnalyzing is reset in the try block only.
OnRejectedNoFinally(message) ==
    [isAnalyzing |-> isAnalyzing, analysisError |-> message, analysisResult |-> analysisResult]

\* Mutant of OnRejected: the Error is stored, not its message.
OnRejectedStoresError(message) ==
    [isAnalyzing |-> FALSE, analysisError |-> JObj([message |-> message]),
     analysisResult |-> analysisResult]

\* catch + finally, after the call rejected with an Error of this message.
OnRejected(message) ==
    [isAnalyzing |-> FALSE, analysisError |-> message, analysisResult |-> analysisResult]

Apply(u) ==
    /\ isAnalyzing' = u.isAnalyzing
    /\ analysisError' = u.analysisError
    /\ analysisResult' = u.analysisResult
    /\ Render(u.isAnalyzing)

\* The handler up to its await: the state updates, and analyzeProject up to
\* its fetch.  trigger names what invoked the handler.
HandleAnalyzeClick(trigger) ==
    LET body == RequestBody(JStr(projectPath), OrElse(JStr(analysisPrompt), JNull))
    IN  /\ Apply(OnStart)
        /\ inflight' = Append(inflight, [body |-> body, pc |-> "fetch", status |-> NoRequest])
        /\ hist' = [started |-> TRUE, outcome |-> NoOutcome, settledBy |-> NoRequest,
                    lastRequest |-> body, trigger |-> trigger,
                    sameAsLast |-> (body = hist.lastRequest)]
        /\ UNCHANGED <<projectPath, analysisPrompt>>

\* The handler after its await, for the invocation that awaits inflight[i];
\* response is what the server answered, for the history.
HandlerContinues(i, settled, response) ==
    /\ Apply(IF settled.kind = "resolved"
             THEN OnResolved(settled.value)
             ELSE OnRejected(settled.value))
    /\ inflight' = SubSeq(inflight, 1, i - 1) \o SubSeq(inflight, i + 1, Len(inflight))
    /\ hist' = [hist EXCEPT !.outcome = settled, !.settledBy = response,
                             !.trigger = "none", !.sameAsLast = FALSE]
    /\ UNCHANGED <<projectPath, analysisPrompt>>

(***************************************************************************)
(* Actions                                                                 *)
(***************************************************************************)
\* The user clicks the sidebar's Analyze button.
ClickAnalyze ==
    /\ AnalyzeButtonEnabled
    /\ HandleAnalyzeClick("analyze")

\* The user clicks Try Again in the error view.
ClickTryAgain ==
    /\ TryAgainRendered
    /\ HandleAnalyzeClick("retry")

\* Mutant of EditProjectPath: editing the path resets the session.
EditProjectPathResets(v) ==
    /\ v # projectPath
    /\ projectPath' = v
    /\ Apply([isAnalyzing |-> FALSE, analysisError |-> JNull, analysisResult |-> JNull])
    /\ UNCHANGED <<analysisPrompt, inflight, hist>>

\* The user edits the project-path input.
EditProjectPath(v) ==
    /\ v # projectPath
    /\ projectPath' = v
    /\ UNCHANGED <<appVars, analysisPrompt, inflight, sim, hist>>

\* The user edits the prompt textarea.
EditAnalysisPrompt(v) ==
    /\ v # analysisPrompt
    /\ analysisPrompt' = v
    /\ UNCHANGED <<appVars, projectPath, inflight, sim, hist>>

\* The user clicks "Use Advanced Security Analysis Sample".
UseSamplePrompt ==
    /\ analysisPrompt # SAMPLE_PROMPT
    /\ analysisPrompt' = SAMPLE_PROMPT
    /\ UNCHANGED <<appVars, projectPath, inflight, sim, hist>>

\* fetch resolves: the status line and headers of the response have arrived.
FetchResolves(i, status) ==
    /\ inflight[i].pc = "fetch"
    /\ inflight' = [inflight EXCEPT ![i].pc = "json", ![i].status = status]
    /\ UNCHANGED <<appVars, projectPath, analysisPrompt, sim, hist>>

\* fetch rejects (the network failed): analyzeProject rejects with its error.
FetchRejects(i) ==
    /\ inflight[i].pc = "fetch"
    /\ HandlerContinues(i, [kind |-> "rejected", value |-> JStr(NetworkErrorMessage)],
                        NoRequest)

\* Mutant of JsonSettles: a request the server answered with an error status
\* is sent again.
JsonSettlesResends(i, body) ==
    /\ inflight[i].pc = "json"
    /\ inflight[i].status.ok => body \in OkBodies
    /\ ~inflight[i].status.ok => body \in ErrBodies
    /\ IF inflight[i].status.ok
       THEN HandlerContinues(i, Settlement(inflight[i].status, body),
                             [status |-> inflight[i].status, body |-> body])
       ELSE /\ inflight' = [inflight EXCEPT ![i].pc = "fetch", ![i].status = NoRequest]
            /\ UNCHANGED <<appVars, projectPath, analysisPrompt, sim, hist>>

\* response.json() settles on the body of the response.
JsonSettles(i, body) ==
    /\ inflight[i].pc = "json"
    /\ inflight[i].status.ok => body \in OkBodies
    /\ ~inflight[i].status.ok => body \in ErrBodies
    /\ HandlerContinues(i, Settlement(inflight[i].status, body),
                        [status |-> inflight[i].status, body |-> body])

\* A progress interval fires.  Its period ends no later than the stage
\* timeout for the first TicksPerStage periods.
ProgressTick ==
    /\ \E iv \in sim.intervals :
          /\ iv.fired < TicksPerStage
          /\ sim' = IntervalCallback(sim, iv)
    /\ UNCHANGED <<appVars, projectPath, analysisPrompt, inflight, hist>>

\* A stage timeout fires: every interval period that ends earlier has fired.
StageTimeout ==
    /\ \E to \in sim.timeouts :
          /\ \A iv \in sim.intervals : iv.fired >= TicksPerStage - 1
          /\ sim' = TimeoutCallback(sim, to)
    /\ UNCHANGED <<appVars, projectPath, analysisPrompt, inflight, hist>>

(***************************************************************************)
(* SettingsPanel and the API client's getSettings / updateSettings.        *)
(* settingsPanel holds the React state (provider, loading, status), the    *)
(* call the panel awaits (pending) and, for the history, what the network  *)
(* answered to the last call (answer, kept until the user next acts on the *)
(* panel).                                                                 *)
(***************************************************************************)
\* The bodies a 2xx answer to GET /api/settings can carry.
GetSettingsBodies ==
    {JObj([llm_provider |-> JStr("ollama")]), JObj([llm_provider |-> JStr("")]),
     JObj([storage |-> JStr("json")]), JNull, NotJson}

\* The bodies an answer to POST /api/settings can carry.
UpdateSettingsBodies ==
    {JObj([status |-> JStr("ok")]), JObj([detail |-> JStr("boom")]), NotJson}

\* The options of the provider select.
ProviderOptions == {"openrouter", "ollama"}

\* The panel after it mounted: useState('') / (true) / (''), and the effect
\* has run fetchSettings up to its await.
SettingsMounted ==
    [provider |-> JStr(""), loading |-> TRUE, status |-> "",
     pending |-> [op |-> "getSettings", pc |-> "fetch", status |-> NoRequest],
     answer |-> NoRequest]

\* Mutant of FetchSettingsContinues: the catch block does not set the
\* provider.
FetchSettingsContinuesNoDefault(p, settled) ==
    IF settled.kind = "resolved" /\ ~PropertyReadThrows(settled.value)
    THEN [p EXCEPT !.provider = OrElse(Get(settled.value, "llm_provider"), JStr("openrouter")),
                   !.loading = FALSE]
    ELSE [p EXCEPT !.status = "Error loading settings.", !.loading = FALSE]

\* fetchSettings after its await.  Reading llm_provider of null throws
\* inside the try block.
FetchSettingsContinues(p, settled) ==
    IF settled.kind = "resolved" /\ ~PropertyReadThrows(settled.value)
    THEN [p EXCEPT !.provider = OrElse(Get(settled.value, "llm_provider"), JStr("openrouter")),
                   !.loading = FALSE]
    ELSE [p EXCEPT !.status = "Error loading settings.",
                   !.provider = JStr("openrouter"),
                   !.loading = FALSE]

\* handleSave after its await.
HandleSaveContinues(p, settled) ==
    IF settled.kind = "resolved"
    THEN [p EXCEPT !.status = "Settings saved successfully! Backend provider switched.",
                   !.loading = FALSE]
    ELSE [p EXCEPT !.status = "Error saving: " \o settled.value.s, !.loading = FALSE]

\* The call the panel awaits settles: the handler that awaits it continues.
SettingsCallSettles(settled, response) ==
    LET p == [settingsPanel EXCEPT !.pending = NoRequest, !.answer = response]
    IN  settingsPanel' = IF settingsPanel.pending.op = "getSettings"
                         THEN FetchSettingsContinues(p, settled)
                         ELSE HandleSaveContinues(p, settled)

\* The message of the Error updateSettings throws for a non-ok response.
UpdateErrorMessage(statusText, body) ==
    "Failed to update settings: " \o
        (IF body = NotJson \/ PropertyReadThrows(body)
         THEN statusText
         ELSE ToStr(OrElse(Get(body, "detail"), JStr("Unknown error during update."))))

\* What the session's variables are to every step of the settings panel.
SessionUntouched ==
    UNCHANGED <<appVars, projectPath, analysisPrompt, inflight, sim, hist, activeTab, simHist>>

\* fetch of the pending settings call resolves.  getSettings throws at once
\* on a non-ok response; otherwise the body is read next.
SettingsFetchResolves(status) ==
    /\ settingsPanel.pending # NoRequest
    /\ settingsPanel.pending.pc = "fetch"
    /\ IF settingsPanel.pending.op = "getSettings" /\ ~status.ok
       THEN SettingsCallSettles(
                [kind |-> "rejected",
                 value |-> JStr("Failed to fetch settings: " \o status.statusText)],
                [status |-> status, body |-> NoRequest])
       ELSE settingsPanel' = [settingsPanel EXCEPT !.pending.pc = "json",
                                                   !.pending.status = status]
    /\ SessionUntouched

\* fetch of the pending settings call rejects: the network failed.
SettingsFetchRejects ==
    /\ settingsPanel.pending # NoRequest
    /\ settingsPanel.pending.pc = "fetch"
    /\ SettingsCallSettles([kind |-> "rejected", value |-> JStr(NetworkErrorMessage)],
                           [status |-> NoRequest, body |-> NoRequest])
    /\ SessionUntouched

\* response.json() of the pending settings call settles on this body.
SettingsJsonSettles(body) ==
    /\ settingsPanel.pending # NoRequest
    /\ settingsPanel.pending.pc = "json"
    /\ body \in IF settingsPanel.pending.op = "getSettings"
                THEN GetSettingsBodies ELSE UpdateSettingsBodies
    /\ LET status == settingsPanel.pending.status
       IN  SettingsCallSettles(
               IF ~status.ok
               THEN [kind |-> "rejected",
                     value |-> JStr(UpdateErrorMessage(status.statusText, body))]
               ELSE IF body = NotJson
                    THEN [kind |-> "rejected", value |-> JStr(JsonSyntaxErrorMessage)]
                    ELSE [kind |-> "resolved", value |-> body],
               [status |-> status, body |-> body])
    /\ SessionUntouched

\* The user picks an option of the select, rendered once loading is over.
HandleProviderChange(v) ==
    /\ ~settingsPanel.loading
    /\ JStr(v) # settingsPanel.provider
    /\ settingsPanel' = [settingsPanel EXCEPT !.provider = JStr(v), !.answer = NoRequest]
    /\ SessionUntouched

\* The user clicks Save: handleSave up to its await.
HandleSave ==
    /\ ~settingsPanel.loading
    /\ ~StrContains(settingsPanel.status, "Saving")
    /\ settingsPanel' =
          [settingsPanel EXCEPT
              !.loading = TRUE, !.status = "Saving...", !.answer = NoRequest,
              !.pending = [op |-> "updateSettings", pc |-> "fetch", status |-> NoRequest,
                           body |-> [settings |-> [llm_provider |-> settingsPanel.provider]]]]
    /\ SessionUntouched

\* AnalysisResults keeps its tab while it stays rendered; a newly mounted
\* AnalysisResults starts on 'stage1'.
TabAfterRender == activeTab' = IF ShowResults /\ ShowResults' THEN activeTab ELSE "stage1"

\* The user clicks a tab button of the results view.
SelectTab(tab) ==
    /\ ShowResults
    /\ tab # activeTab
    /\ activeTab' = tab
    /\ UNCHANGED <<appVars, projectPath, analysisPrompt, inflight, sim, hist, simHist,
                   settingsPanel>>

\* The simulator has not been stopped yet.
NotStopped == [none |-> TRUE]

\* The history of the simulator: where the run before this one was stopped,
\* and how many stage timeouts have fired in this run (counted up to
\* MaxTransitions).  Initially, and for good when no history is kept:
NoSimHist == [prevStop |-> NotStopped, transitions |-> 0]

\* What every step other than a tab click leaves: the tab as the render
\* leaves it, and no simulator history.
Frame == TabAfterRender /\ UNCHANGED <<simHist, settingsPanel>>

Init ==
    /\ isAnalyzing = FALSE
    /\ analysisResult = JNull
    /\ analysisError = JNull
    /\ projectPath = "."
    /\ analysisPrompt = ""
    /\ inflight = <<>>
    /\ sim = Unmounted
    /\ hist = [started |-> FALSE, outcome |-> NoOutcome, settledBy |-> NoRequest,
               lastRequest |-> NoRequest, trigger |-> "none", sameAsLast |-> FALSE]
    /\ activeTab = "stage1"
    /\ simHist = NoSimHist
    /\ settingsPanel = SettingsMounted

UserEdits ==
    \/ \E v \in Paths : EditProjectPath(v)
    \/ \E v \in Prompts : EditAnalysisPrompt(v)
    \/ UseSamplePrompt

\* The network, answering with these status lines and these bodies.
Network(statuses, bodies) ==
    \/ \E i \in 1..Len(inflight) : \E status \in statuses : FetchResolves(i, status)
    \/ \E i \in 1..Len(inflight) : FetchRejects(i)
    \/ \E i \in 1..Len(inflight) : \E body \in bodies : JsonSettles(i, body)

Timers ==
    \/ ProgressTick
    \/ StageTimeout

\* The program as the user drives it: every start comes from a rendered control.
Next ==
    \/ ClickAnalyze /\ Frame
    \/ ClickTryAgain /\ Frame
    \/ UserEdits /\ Frame
    \/ \E tab \in Tabs : SelectTab(tab)
    \/ Network(StatusLines, OkBodies \cup ErrBodies) /\ Frame
    \/ ProgressTick /\ Frame
    \/ StageTimeout /\ Frame

Spec == Init /\ [][Next]_vars

(***************************************************************************)
(* The handler as a function: whoever holds handleAnalyzeClick (it is      *)
(* passed down as the prop onAnalyzeProject) calls it while a request is   *)
(* pending.  The input fields stay as they are; the server answers with    *)
(* one success and one structured error.                                   *)
(***************************************************************************)
\* The most requests pending at once.
MaxInflight == 2

InvokeHandler ==
    /\ isAnalyzing
    /\ Len(inflight) < MaxInflight
    /\ HandleAnalyzeClick("direct")

HandlerStatusLines ==
    {[ok |-> TRUE, statusText |-> "OK"],
     [ok |-> FALSE, statusText |-> "Internal Server Error"]}

HandlerBodies == {ResultFull, JObj([detail |-> JStr("boom")])}

\* A body fit for the status line: a result for 2xx, an error otherwise.
HandlerJsonSettles(i, body) ==
    /\ inflight[i].pc = "json"
    /\ (body = ResultFull) = inflight[i].status.ok
    /\ JsonSettles(i, body)

NextHandler ==
    \/ ClickAnalyze /\ Frame
    \/ ClickTryAgain /\ Frame
    \/ InvokeHandler /\ Frame
    \/ (\E i \in 1..Len(inflight) : \E status \in HandlerStatusLines : FetchResolves(i, status))
          /\ Frame
    \/ (\E i \in 1..Len(inflight) : FetchRejects(i)) /\ Frame
    \/ (\E i \in 1..Len(inflight) : \E body \in HandlerBodies : HandlerJsonSettles(i, body))
          /\ Frame
    \/ ProgressTick /\ Frame
    \/ StageTimeout /\ Frame

SpecHandler == Init /\ [][NextHandler]_vars

(***************************************************************************)
(* ApiClient.analyzeProject called by any caller, one call at a time, with *)
(* any arguments: the call's record keeps the arguments it was made with.  *)
(***************************************************************************)
\* The arguments a caller passes: paths that are empty, blank or absent,
\* prompts that are empty, blank, null or absent.
ApiPathArgs == {JStr("."), JStr(""), JStr(" "), JStr("../other-project"), JUndefined}

ApiPromptArgs == {JStr(""), JStr(" "), JStr("Summarize the project"), JNull, JUndefined}

ApiCall(pathArg, promptArg) ==
    /\ inflight = <<>>
    /\ inflight' = <<[body |-> RequestBody(pathArg, promptArg), pc |-> "fetch",
                      status |-> NoRequest,
                      args |-> [path |-> pathArg, prompt |-> promptArg]]>>
    /\ UNCHANGED <<appVars, projectPath, analysisPrompt, sim, hist>>

\* The promise of the call settles; its caller is not the App.
ApiSettles(i, settled, response) ==
    /\ inflight' = SubSeq(inflight, 1, i - 1) \o SubSeq(inflight, i + 1, Len(inflight))
    /\ hist' = [hist EXCEPT !.outcome = settled, !.settledBy = response]
    /\ UNCHANGED <<appVars, projectPath, analysisPrompt, sim>>

ApiFetchRejects(i) ==
    /\ inflight[i].pc = "fetch"
    /\ ApiSettles(i, [kind |-> "rejected", value |-> JStr(NetworkErrorMessage)], NoRequest)

ApiJsonSettles(i, body) ==
    /\ inflight[i].pc = "json"
    /\ (body = ResultFull) = inflight[i].status.ok
    /\ ApiSettles(i, Settlement(inflight[i].status, body),
                  [status |-> inflight[i].status, body |-> body])

NextApi ==
    \/ (\E pathArg \in ApiPathArgs : \E promptArg \in ApiPromptArgs :
            ApiCall(pathArg, promptArg)) /\ Frame
    \/ (\E i \in 1..Len(inflight) : \E status \in HandlerStatusLines : FetchResolves(i, status))
          /\ Frame
    \/ (\E i \in 1..Len(inflight) : ApiFetchRejects(i)) /\ Frame
    \/ (\E i \in 1..Len(inflight) : \E body \in HandlerBodies : ApiJsonSettles(i, body))
          /\ Frame

SpecApi == Init /\ [][NextApi]_vars

(***************************************************************************)
(* The simulator under start and stop: the App starts a request, which     *)
(* fails at any moment, and starts again.  The history of the simulator is *)
(* kept: where the last run was stopped, and the stage timeouts fired.     *)
(***************************************************************************)
MaxTransitions == 4

\* How far the stage had got: no tick yet, some ticks, every tick but the one
\* due together with the stage timeout, or every tick.
Phase(s) ==
    IF \A iv \in s.intervals : iv.id # s.progressTimer
    THEN "cleared"
    ELSE LET iv == CHOOSE x \in s.intervals : x.id = s.progressTimer
         IN  CASE iv.fired = 0 -> "start"
               [] iv.fired = TicksPerStage - 1 -> "due"
               [] iv.fired >= TicksPerStage -> "late"
               [] OTHER -> "mid"

StopPoint(s) == [stage |-> s.currentStage, phase |-> Phase(s)]

SimStart ==
    /\ ClickAnalyze \/ ClickTryAgain
    /\ TabAfterRender
    /\ simHist' = [simHist EXCEPT !.transitions = 0]
    /\ UNCHANGED settingsPanel

SimStop ==
    /\ \E i \in 1..Len(inflight) : FetchRejects(i)
    /\ TabAfterRender
    /\ simHist' = [prevStop |-> StopPoint(sim), transitions |-> 0]
    /\ UNCHANGED settingsPanel

SimStageTimeout ==
    /\ StageTimeout
    /\ TabAfterRender
    /\ simHist' = [simHist EXCEPT !.transitions = Min(@ + 1, MaxTransitions)]
    /\ UNCHANGED settingsPanel

NextSim ==
    \/ SimStart
    \/ SimStop
    \/ ProgressTick /\ Frame
    \/ SimStageTimeout

SpecSim == Init /\ [][NextSim]_vars

(***************************************************************************)
(* The App under the assumption that the network answers: every issued     *)
(* call eventually settles.  Nothing is assumed of the user or the timers. *)
(***************************************************************************)
LiveBodies == {ResultFull, JNull, JObj([detail |-> JStr("boom")])}

NetworkAnswers == Network(HandlerStatusLines, LiveBodies) /\ Frame

NextLive ==
    \/ ClickAnalyze /\ Frame
    \/ ClickTryAgain /\ Frame
    \/ NetworkAnswers
    \/ ProgressTick /\ Frame
    \/ StageTimeout /\ Frame

SpecLive == Init /\ [][NextLive]_vars /\ WF_vars(NetworkAnswers)

(***************************************************************************)
(* The settings panel next to the App: its fetch at mount, the select and  *)
(* Save, while analyses are started, fail and are started again.           *)
(***************************************************************************)
NextSettings ==
    \/ \E status \in HandlerStatusLines : SettingsFetchResolves(status)
    \/ SettingsFetchRejects
    \/ \E body \in GetSettingsBodies \cup UpdateSettingsBodies : SettingsJsonSettles(body)
    \/ \E v \in ProviderOptions : HandleProviderChange(v)
    \/ HandleSave
    \/ ClickAnalyze /\ Frame
    \/ ClickTryAgain /\ Frame
    \/ (\E i \in 1..Len(inflight) : FetchRejects(i)) /\ Frame
    \/ ProgressTick /\ Frame
    \/ StageTimeout /\ Frame

SpecSettings == Init /\ [][NextSettings]_vars

(***************************************************************************)
(* Properties                                                              *)
(***************************************************************************)
TimersLive == (sim.intervals \cup sim.timeouts) # {}

\* The simulator is stopped: the component is unmounted and no timer is left.
SimStopped == ~sim.mounted /\ ~TimersLive

\* The request issued last.
LastIssued(q) == q[Len(q)]

\* C1: invoking handleAnalyzeClick while the session is Running leaves the
\* session state unchanged and issues no second analyzeProject call.
C1_StartWhileRunningIsNoOp ==
    [][(isAnalyzing /\ InvokeHandler)
        => (isAnalyzing' /\ inflight' = inflight
              /\ analysisResult' = analysisResult /\ analysisError' = analysisError)]_vars

\* C2: the session is Running exactly while an analyzeProject request of the
\* handler is in flight.
C2_RunningIffRequestInFlight == isAnalyzing <=> (inflight # <<>>)

C2_Witness ==
    /\ isAnalyzing
    /\ Len(inflight) = 1
    /\ inflight[1].pc = "json"
    /\ hist.trigger = "retry"

\* C3: the progress simulator is mounted with live timers exactly while the
\* session is Running, and is unmounted with no timer left otherwise.
C3_SimulatorActiveIffRunning ==
    /\ isAnalyzing => (sim.mounted /\ TimersLive)
    /\ ~isAnalyzing => SimStopped

C3_Witness ==
    /\ SessionState = "Running"
    /\ sim.mounted
    /\ sim.currentStage = 1
    /\ hist.trigger = "retry"

\* C4: the results view is rendered only when the last request resolved and
\* its payload is stored: never with a request in flight, never with an error
\* stored, never before an analysis has completed.
C4_ResultsOnlyWhenSucceeded ==
    ShowResults =>
        /\ inflight = <<>>
        /\ analysisError = JNull
        /\ hist.outcome.kind = "resolved"
        /\ analysisResult = hist.outcome.value

C4_Witness == ShowResults /\ analysisResult = ResultPartial

AllowedTransitions ==
    {<<"Idle", "Running">>, <<"Running", "Succeeded">>, <<"Running", "Failed">>,
     <<"Succeeded", "Running">>, <<"Failed", "Running">>}

\* C5: every change of the session state is Idle -> Running, Running ->
\* Succeeded, Running -> Failed, Succeeded -> Running or Failed -> Running.
C5_OnlyLifecycleTransitions ==
    [][SessionState' # SessionState
        => <<SessionState, SessionState'>> \in AllowedTransitions]_vars

\* C6: a start taken while Idle leaves the session Running with its request
\* issued and not yet settled.
C6_RunningBeforeSettlement ==
    [][(SessionState = "Idle" /\ Len(inflight') = Len(inflight) + 1)
        => /\ SessionState' = "Running"
           /\ LastIssued(inflight').pc = "fetch"
           /\ hist'.outcome = NoOutcome]_vars

C6_Witness ==
    /\ SessionState = "Running"
    /\ hist.trigger = "analyze"
    /\ Len(inflight) = 1
    /\ inflight[1].pc = "fetch"

\* C7: once the call has resolved with a payload, the session is Succeeded
\* holding exactly that payload, and the simulator is stopped.
C7_ResolvedMeansSucceeded ==
    hist.outcome.kind = "resolved" =>
        /\ SessionState = "Succeeded"
        /\ analysisResult = hist.outcome.value
        /\ SimStopped

C9_RetryRepeatsLastRequest == hist.trigger = "retry" => hist.sameAsLast

\* C9 as amended: a retry issues a request with the path and prompt the input
\* fields hold when Try Again is clicked.
C9_RetryUsesCurrentInputs ==
    [][ClickTryAgain
        => LET b == LastIssued(inflight')
           IN  /\ Len(inflight') = Len(inflight) + 1
               /\ b.body.project_path = JStr(projectPath)
               /\ analysisPrompt # "" => /\ "analysis_prompt" \in DOMAIN b.body
                                         /\ b.body.analysis_prompt = JStr(analysisPrompt)
               /\ analysisPrompt = "" => "analysis_prompt" \notin DOMAIN b.body]_vars

C9_Witness ==
    /\ hist.trigger = "retry"
    /\ ~hist.sameAsLast
    /\ Len(inflight) = 1
    /\ inflight[1].body = [project_path |-> JStr("../other-project")]

\* Whether the last request was answered with a non-success response.
AnsweredNotOk == hist.settledBy # NoRequest /\ ~hist.settledBy.status.ok

\* Whether the body is a JSON object whose detail is a string.
HasDetail(body) ==
    body.t = "object" /\ "detail" \in DOMAIN body.f /\ body.f.detail.t = "string"

\* C10 as claimed: a non-success response whose JSON body has detail X makes
\* analyzeProject reject with the message X; one whose body is no JSON makes
\* it reject with a message that contains the status text.
C10_DetailOrStatusText ==
    AnsweredNotOk =>
        LET body == hist.settledBy.body
        IN  /\ HasDetail(body) => hist.outcome = [kind |-> "rejected", value |-> body.f.detail]
            /\ body = NotJson =>
                  /\ hist.outcome.kind = "rejected"
                  /\ StrContains(hist.outcome.value.s, hist.settledBy.status.statusText)

\* C10 as amended: the same, for a detail X that is not the empty string.
C10_NonEmptyDetailOrStatusText ==
    AnsweredNotOk =>
        LET body == hist.settledBy.body
        IN  /\ (HasDetail(body) /\ body.f.detail # JStr(""))
                  => hist.outcome = [kind |-> "rejected", value |-> body.f.detail]
            /\ body = NotJson =>
                  /\ hist.outcome.kind = "rejected"
                  /\ StrContains(hist.outcome.value.s, hist.settledBy.status.statusText)

C10_Witness ==
    /\ AnsweredNotOk
    /\ hist.settledBy.body = NotJson
    /\ hist.settledBy.status.statusText = "Internal Server Error"
    /\ analysisError = JStr("Failed to analyze project: Internal Server Error")

\* C11: the request body of every call holds project_path equal to the path
\* the call was given, unchanged (an empty or blank path too), and holds the
\* key analysis_prompt, with the prompt given, exactly when the prompt is a
\* non-empty string; for an empty, null or absent prompt the key is left out.
NonEmptyString(v) == v.t = "string" /\ v.s # ""

C11_RequestBodyKeys ==
    \A i \in 1..Len(inflight) :
        LET given == inflight[i].args
            sent == inflight[i].body
        IN  /\ given.path # JUndefined => sent.project_path = given.path
            /\ ("analysis_prompt" \in DOMAIN sent) <=> NonEmptyString(given.prompt)
            /\ "analysis_prompt" \in DOMAIN sent => sent.analysis_prompt = given.prompt

\* A call made with a blank path and an empty prompt is pending.
C11_Witness ==
    \E i \in 1..Len(inflight) :
        /\ inflight[i].args = [path |-> JStr(" "), prompt |-> JStr("")]
        /\ inflight[i].pc = "json"

\* C12: a start (a click on Analyze or on Try Again) issues exactly one
\* fetch, and no other step issues one: after a failure nothing is sent
\* until the user starts again.
NumFetching(q) == Cardinality({i \in 1..Len(q) : q[i].pc = "fetch"})

C13_NoCallbackAfterStop ==
    [][~sim.mounted => ~(ProgressTick \/ StageTimeout)]_vars

\* The simulator was stopped in its third stage with the last tick and the
\* stage timeout both due, and is stopped.
C13_Witness ==
    /\ SimStopped
    /\ simHist.prevStop = [stage |-> 2, phase |-> "due"]

\* C14: while the simulator runs, the stage index changes only when a stage
\* timeout fires, and then from i to (i + 1) mod 3: 0, 1, 2, 0, 1, ...
C14_StagesCycle ==
    [][(sim.mounted /\ sim'.mounted)
          => sim'.currentStage = IF StageTimeout
                                 THEN (sim.currentStage + 1) % NumStages
                                 ELSE sim.currentStage]_vars

\* The stage index has wrapped around: MaxTransitions stage timeouts have
\* fired in this run and the second stage is shown again.
C14_Witness ==
    /\ sim.mounted
    /\ simHist.transitions = MaxTransitions
    /\ sim.currentStage = 1

\* C15: at every stage transition the percent is 100 right before it and 0
\* right after it, whichever of the stage timeout and the last tick fires
\* first.
C15_FullBeforeZeroAfter ==
    [][StageTimeout => (sim.progress = Pct(100) /\ sim'.progress = 0)]_vars

\* C16: the stage index is always one of 0, 1, 2 and the percent always
\* within 0..100, and a simulator that has just started, no callback of its
\* timers run yet, shows stage 0 at 0 percent, also when the run before it
\* was stopped in a later stage.
JustStarted ==
    /\ sim.mounted
    /\ simHist.transitions = 0
    /\ sim.intervals # {}
    /\ \A iv \in sim.intervals : iv.fired = 0

C16_RangesAndFreshStart ==
    /\ sim.currentStage \in 0..(NumStages - 1)
    /\ sim.progress \in 0..Pct(100)
    /\ JustStarted => (sim.currentStage = 0 /\ sim.progress = 0)

\* A run has just started after the run before it was stopped in the third
\* stage.
C16_Witness ==
    /\ JustStarted
    /\ simHist.prevStop # NotStopped
    /\ simHist.prevStop.stage = 2
    /\ simHist.prevStop.phase = "mid"

\* C17: in every Failed state a start can be taken both by Try Again and by
\* the sidebar's Analyze button, and either takes the session to Running.
C17_FailedCanRestart ==
    /\ [](SessionState = "Failed" => (ENABLED ClickTryAgain /\ ENABLED ClickAnalyze))
    /\ [][(SessionState = "Failed" /\ (ClickTryAgain \/ ClickAnalyze))
              => SessionState' = "Running"]_vars

\* The session is Running on a request Try Again issued.
C17_Witness ==
    /\ SessionState = "Running"
    /\ hist.trigger = "retry"
    /\ Len(inflight) = 1
    /\ inflight[1].pc = "fetch"

\* C18: through the rendered controls at most one analyzeProject request is
\* in flight at any time: while the session is Running neither Analyze nor
\* Try Again can be clicked, so no second request is started or queued.
C18_AtMostOneInFlight ==
    /\ Len(inflight) <= 1
    /\ isAnalyzing => (~ENABLED ClickAnalyze /\ ~ENABLED ClickTryAgain)

\* A second Analyze of the same request, after the first one settled, is
\* the one request in flight and has been answered.
C18_Witness ==
    /\ isAnalyzing
    /\ hist.trigger = "analyze"
    /\ hist.sameAsLast
    /\ Len(inflight) = 1
    /\ inflight[1].pc = "json"
    /\ inflight[1].status.ok

\* C19: a step that changes the path or the prompt input while the session
\* is Running changes neither the request in flight nor the session (its
\* flags, result, error and simulator), and the body of a request is the
\* same from its issue to its settlement.
InputEdited == projectPath' # projectPath \/ analysisPrompt' # analysisPrompt

C19_EditsLeaveRequestAndSession ==
    [][/\ (isAnalyzing /\ InputEdited)
            => (inflight' = inflight /\ sim' = sim /\ UNCHANGED appVars)
       /\ Len(inflight') = Len(inflight)
            => \A i \in 1..Len(inflight) : inflight'[i].body = inflight[i].body]_vars

\* The session is Running on a request whose path and prompt both differ
\* from what the inputs hold now, the request already answered.
C19_Witness ==
    /\ SessionState = "Running"
    /\ Len(inflight) = 1
    /\ inflight[1].pc = "json"
    /\ inflight[1].body = [project_path |-> JStr("."), analysis_prompt |-> JStr(SAMPLE_PROMPT)]
    /\ projectPath = "../other-project"
    /\ analysisPrompt = ""

\* C20: while a result is shown, each of the three stage views shows the
\* data of its own stage when the result holds that stage, and its own "no
\* data available" placeholder when the stage is missing or null, whatever
\* the other two stages are.
StagePresent(result, tab) ==
    /\ result.t = "object"
    /\ tab \in DOMAIN result.f
    /\ result.f[tab] \notin {JNull, JUndefined}

StageData(result, tab) ==
    IF tab = "stage3" THEN Get(result.f[tab], "response") ELSE result.f[tab]

C21_RunningLeadsToOutcome ==
    (SessionState = "Running")
        ~> (SessionState \in {"Succeeded", "Failed"} /\ SimStopped)

\* C22: the stored result and the stored error are never both non-null, and
\* while the session is Running both are null: a start clears the outcome of
\* the run before it.
C22_ResultXorError ==
    /\ analysisResult = JNull \/ analysisError = JNull
    /\ isAnalyzing => (analysisResult = JNull /\ analysisError = JNull)

\* A run started by Try Again, so after a failure, has been answered with a
\* success status and stores neither a result nor an error.
C22_Witness ==
    /\ isAnalyzing
    /\ hist.trigger = "retry"
    /\ analysisError = JNull
    /\ analysisResult = JNull
    /\ Len(inflight) = 1
    /\ inflight[1].status = [ok |-> TRUE, statusText |-> "OK"]

\* C23: in every state exactly one of the four main views is rendered: the
\* progress view, the error view, the results view or the welcome view.
ViewsRendered ==
    {v \in {"progress", "error", "results", "welcome"} :
        CASE v = "progress" -> ShowProgress
          [] v = "error" -> ShowError
          [] v = "results" -> ShowResults
          [] OTHER -> ShowWelcome}

C23_ExactlyOneView == Cardinality(ViewsRendered) = 1

\* The error view alone is rendered, after a failure that followed an
\* earlier request.
C23_Witness ==
    /\ ViewsRendered = {"error"}
    /\ hist.outcome.kind = "rejected"
    /\ hist.lastRequest = [project_path |-> JStr("../other-project")]

\* C24: while the simulator is active at most one progress interval and at
\* most one stage timeout are live, and they are the ones the closure's
\* progressTimer and stageTimer name, the ones the cleanup clears.
C24_OneIntervalOneTimeout ==
    sim.mounted =>
        /\ Cardinality(sim.intervals) <= 1
        /\ Cardinality(sim.timeouts) <= 1
        /\ \A iv \in sim.intervals : iv.id = sim.progressTimer
        /\ \A to \in sim.timeouts : to.id = sim.stageTimer

\* The third stage is running after two stage transitions, all its ticks
\* fired and its timeout pending: one interval and one timeout are live.
C24_Witness ==
    /\ sim.mounted
    /\ sim.currentStage = 2
    /\ simHist.transitions = 2
    /\ Cardinality(sim.intervals) = 1
    /\ Cardinality(sim.timeouts) = 1
    /\ \A iv \in sim.intervals : iv.fired = TicksPerStage

\* C25: the sidebar's project-info block is shown only while the session is
\* Succeeded with a result that carries file metadata: never while it is
\* Idle, Running or Failed, whatever the run before stored.
C25_ProjectInfoOnlyWhenSucceeded ==
    ShowProjectInfo =>
        /\ SessionState = "Succeeded"
        /\ analysisResult.t = "object"
        /\ "metadata" \in DOMAIN analysisResult.f
        /\ analysisResult.f.metadata.t = "object"
        /\ "file_analysis" \in DOMAIN analysisResult.f.metadata.f

\* The block is shown for a result with file metadata.
C25_Witness ==
    /\ ShowProjectInfo
    /\ FileMetadataProp = FileAnalysis
    /\ SessionState = "Succeeded"

\* C26: a non-success response whose body parses as JSON and holds no
\* non-empty detail makes analyzeProject reject with exactly "Failed to
\* analyze project"; the message with the status text is used only when the
\* body does not parse.
HoldsDetail(body) ==
    body.t = "object" /\ "detail" \in DOMAIN body.f /\ Truthy(body.f.detail)

C26_PlainMessageWithoutDetail ==
    AnsweredNotOk =>
        LET body == hist.settledBy.body
            statusText == hist.settledBy.status.statusText
        IN  /\ (body # NotJson /\ ~HoldsDetail(body))
                  => hist.outcome = [kind |-> "rejected",
                                     value |-> JStr("Failed to analyze project")]
            /\ hist.outcome.value = JStr("Failed to analyze project: " \o statusText)
                  => body = NotJson

\* C27: when the settings fetch settles, by success or by failure, the panel
\* is no longer loading and its provider is not empty: the backend's
\* llm_provider when the backend set one, "openrouter" when the fetch
\* failed or the backend set none; after a failed fetch the status reads
\* "Error loading settings."; and the step changes nothing of the analysis
\* session.
GetSettingsSettles ==
    /\ settingsPanel.pending # NoRequest
    /\ settingsPanel.pending.op = "getSettings"
    /\ settingsPanel'.pending = NoRequest

\* Whether the fetch this answer belongs to failed: no answer at all, an
\* error status, or a body that is no JSON.
SettingsFetchFailed(answer) ==
    \/ answer.status = NoRequest
    \/ ~answer.status.ok
    \/ answer.body = NotJson

\* Whether the answer carries a provider the backend has set.
BackendProviderSet(answer) ==
    /\ ~SettingsFetchFailed(answer)
    /\ answer.body.t = "object"
    /\ "llm_provider" \in DOMAIN answer.body.f
    /\ NonEmptyString(answer.body.f.llm_provider)

C27_SettingsFetchSettles ==
    [][GetSettingsSettles =>
          LET after == settingsPanel'
          IN  /\ ~after.loading
              /\ after.provider # JStr("")
              /\ after.provider = IF BackendProviderSet(after.answer)
                                  THEN after.answer.body.f.llm_provider
                                  ELSE JStr("openrouter")
              /\ SettingsFetchFailed(after.answer)
                    => after.status = "Error loading settings."
              /\ UNCHANGED <<appVars, projectPath, analysisPrompt, inflight, sim>>]_vars

\* The settings fetch has failed on the network while an analysis is
\* Running: the panel shows the default provider and the error status.
C27_Witness ==
    /\ settingsPanel.pending = NoRequest
    /\ settingsPanel.answer = [status |-> NoRequest, body |-> NoRequest]
    /\ settingsPanel.provider = JStr("openrouter")
    /\ settingsPanel.status = "Error loading settings."
    /\ ~settingsPanel.loading
    /\ SessionState = "Running"

====
